---- MODULE Spec2Model ----
(***************************************************************************)
(* LifePal: the tool-augmented conversation orchestrator                   *)
(* (backend/src/llm_service/ollama_client.py), the tool registry and the   *)
(* universal tool executor (backend/src/llm_tools) with the statistics and *)
(* the audit trail they keep in the database.                              *)
(*                                                                         *)
(* Texts (error messages, JSON documents, content) are sequences of words. *)
(***************************************************************************)
EXTENDS Integers, Sequences, FiniteSets, TLC

(***************************************************************************)
(* Bounds of the exploration.                                              *)
(***************************************************************************)
\* largest max_iterations argument of chat / chat_stream that is explored
MaxIterations == 2
\* tool calls the model requests in one exchange, over all its responses
MaxToolCalls == 2
\* content words the model produces in one exchange, over all its responses
MaxWords == 2
\* ToolRegistry.execute_tool calls issued in one behaviour of SpecExec
MaxExecutions == 2
\* storage writes (INSERT of a ToolExecution, UPDATE of the statistics) that
\* raise in one behaviour
MaxFaults == 1
\* the longest history handed to the history processor
MaxHistory == 15
\* the largest token count of a conversation and of a context window
MaxTokens == 3
\* the longest message list handed to format_chat_messages
MaxMessages == 3

(***************************************************************************)
(* The database: ToolDefinition rows and the principals.                   *)
(***************************************************************************)
\* the conversations (request threads) that run against the shared database
Conversations == {"c1", "c2"}

\* the rows of the ToolDefinition table
ToolRows == {"start_checkin", "log_mood", "old_tool"}

\* name of the bootstrap meta-tool
TOOL_RETRIEVER == "tool_retriever"

\* the principals a caller can pass as `user`: an authenticated User, an
\* AnonymousUser (is_authenticated = False) and None (the default of chat)
Users == {"authenticated", "anonymous", "none"}

\* the configuration columns of the rows (edited out-of-band, never by the core)
ToolConfig(name) ==
    CASE name = "start_checkin" ->
            [is_active |-> TRUE, requires_auth |-> TRUE,
             allowed_roles |-> <<"premium_user">>,
             category |-> "wellbeing", execution_type |-> "script"]
      [] name = "log_mood" ->
            [is_active |-> TRUE, requires_auth |-> FALSE,
             allowed_roles |-> <<>>,
             category |-> "wellbeing", execution_type |-> "webhook"]
      [] OTHER ->
            [is_active |-> FALSE, requires_auth |-> TRUE,
             allowed_roles |-> <<"admin">>,
             category |-> "tasks", execution_type |-> "lambda"]

\* the roles a principal holds: the authenticated user is an ordinary
\* account, it is neither admin nor premium_user
HeldRoles(user) == IF user = "authenticated" THEN {"user"} ELSE {}

\* the statistics columns of a freshly created row
NewStats ==
    [execution_count |-> 0, success_count |-> 0, error_count |-> 0,
     avg_execution_time_ms |-> [num |-> 0, den |-> 1]]

\* the in-memory ToolDefinition object of a conversation that holds none
NoTool == [name |-> "", execution_count |-> 0, success_count |-> 0,
           error_count |-> 0, avg_execution_time_ms |-> [num |-> 0, den |-> 1]]

\* the values of int((time.time() - start_time) * 1000), executors.py:52, 72
Durations == {1, 2}

\* a quotient n / d of the float field avg_execution_time_ms, kept exact and
\* in lowest terms
RECURSIVE GCD(_, _)
GCD(a, b) == IF b = 0 THEN a ELSE GCD(b, a % b)

Quotient(n, d) == [num |-> n \div GCD(n, d), den |-> d \div GCD(n, d)]

(***************************************************************************)
(* Results and texts.                                                      *)
(***************************************************************************)
\* a result dictionary: success flag, error text, backend payload and, for
\* the retriever, the names of the tools it lists
Result(success, error, tools, payload) ==
    [success |-> success, error |-> error, tools |-> tools, payload |-> payload]

NoResult == Result(FALSE, <<>>, <<>>, "")

\* a lookup failure reported as a success without text
NotFoundAsSuccess(name) == Result(TRUE, <<>>, <<>>, "")

\* registry.py:92-95
NotFoundResult(name) ==
    Result(FALSE, <<"Tool", name, "not", "found", "or", "inactive">>, <<>>, "")

\* registry.py:99-102
AuthRequiredResult == Result(FALSE, <<"Authentication", "required">>, <<>>, "")

\* executors.py:89-93
FailedResult(error) == Result(FALSE, error, <<>>, "failed")

\* what a backend that ran to completion hands back (json.loads of its
\* output, response.json()): the JSON value is the backend's own; the webhook
\* answers with a body that carries success = false, the other backends
\* with success = true
BackendResult(execution_type) ==
    Result(execution_type # "webhook", <<>>, <<>>, "data")

\* the outcomes of a backend call: it returns a JSON value, or it raises
BackendOutcomes == {"ok", "error", "timeout"}

\* str(e) of the exception a backend raises (executors.py:139,148,194,240,242)
BackendError(execution_type, o) ==
    CASE execution_type = "script" /\ o = "timeout" ->
            <<"Script", "timeout", "after", "30s">>
      [] execution_type = "script" -> <<"Script", "error">>
      [] execution_type = "webhook" /\ o = "timeout" ->
            <<"Webhook", "timeout", "after", "30s">>
      [] execution_type = "webhook" -> <<"Webhook", "HTTP", "error">>
      [] OTHER -> <<"Lambda", "execution", "error">>

\* str(e) of the AttributeError of user.id / user.is_authenticated on None
NoneUserError == <<"NoneType", "object", "has", "no", "attribute">>

\* str(e) of the AttributeError of user.email on an AnonymousUser
AnonymousUserError == <<"AnonymousUser", "object", "has", "no", "attribute">>

\* the principal is a row of the User table: it has id, email and username
\* (executors.py:122-124, 171-173, 206-208) and can be the value of the
\* user column of a ToolExecution (models.py:215-219)
IsUser(user) == user = "authenticated"

\* str(e) of a database error raised by a write
StorageError == <<"database", "error">>

VARIABLES
    tooldefs,       \* ToolDefinition rows: name -> statistics columns
    executions,     \* ToolExecution rows, in insertion order
    ex,             \* per conversation: the frame of execute_tool / execute
    calls,          \* ToolExecutor.execute calls started so far
    invoked,        \* execute_tool calls issued so far
    faults,         \* storage operations that raised so far
    finished,       \* the finished ToolExecutor.execute calls, in order of finishing
    overlapped,     \* some execution started while another one was under way
    req,            \* the request: mode, use_tools, max_iterations, user, conv
    pc,             \* position of the request handler / orchestrator
    stored,         \* Message rows of the conversation, in created_at order
    messages,       \* the list the handler passes to chat / chat_stream
    current_messages, \* the orchestrator's message list
    aliased,        \* current_messages is the very list object `messages`
    origin,         \* per message of current_messages: the call that produced it
    tools,          \* the catalog passed to the inference endpoint
    iterations,     \* the loop counter
    message,        \* the assistant message of the current iteration
    i,              \* index of the next tool call of message.tool_calls
    outcome,        \* how chat / chat_stream ended
    requests,       \* the calls made to the inference endpoint
    emitted,        \* what chat_stream has yielded to its caller
    budget,         \* tool calls and content words the model has produced
    pure            \* one application of a pure function: its input and its results

execVars == <<tooldefs, executions, ex, calls, invoked, faults, finished, overlapped>>

orchVars == <<pure, req, pc, stored, messages, current_messages, aliased, origin,
              tools, iterations, message, i, outcome, requests, emitted, budget>>

vars == <<tooldefs, executions, ex, calls, invoked, faults, finished, overlapped,
          req, pc, stored, messages, current_messages, aliased, origin,
          tools, iterations, message, i, outcome, requests, emitted, budget,
          pure>>

(***************************************************************************)
(* ToolDefinition.update_stats, models.py:190-203.                         *)
(***************************************************************************)
\* total_time = avg * (count - 1); avg = (total_time + time) / count
\* (models.py:199-200), count being the incremented execution_count
RunningMean(avg, count, execution_time_ms) ==
    Quotient(avg.num * (count - 1) + execution_time_ms * avg.den,
             avg.den * count)

\* the increments on the in-memory object and its new mean (models.py:192-200)
update_stats(tool, success, execution_time_ms) ==
    [tool EXCEPT !.execution_count = @ + 1,
                 !.success_count = IF success THEN @ + 1 ELSE @,
                 !.error_count = IF success THEN @ ELSE @ + 1,
                 !.avg_execution_time_ms =
                     RunningMean(@, tool.execution_count + 1,
                                 execution_time_ms)]

\* a save whose update_fields leave out success_count and error_count
SaveExecutionCount(rows, tool) ==
    [rows EXCEPT ![tool.name].execution_count = tool.execution_count,
                 ![tool.name].avg_execution_time_ms = tool.avg_execution_time_ms]

\* self.save(update_fields=[...]) (models.py:201-203): the row takes the
\* values of the in-memory object
save(rows, tool) ==
    [rows EXCEPT ![tool.name] =
        [execution_count |-> tool.execution_count,
         success_count |-> tool.success_count,
         error_count |-> tool.error_count,
         avg_execution_time_ms |-> tool.avg_execution_time_ms]]

\* the lookup by name alone
FoundByName(name) == name \in ToolRows

\* ToolDefinition.objects.get(name=..., is_active=True) (registry.py:87-90)
\* finds a row
Found(name) == name \in ToolRows /\ ToolConfig(name).is_active

\* the object the query returns: the columns as they are stored now
Load(rows, name) ==
    [name |-> name,
     execution_count |-> rows[name].execution_count,
     success_count |-> rows[name].success_count,
     error_count |-> rows[name].error_count,
     avg_execution_time_ms |-> rows[name].avg_execution_time_ms]

\* ToolExecution.objects.create(...) (executors.py:55-62, 77-84)
NewExecution(tool, status, call, execution_time_ms) ==
    [tool |-> tool.name, status |-> status, call |-> call,
     execution_time_ms |-> execution_time_ms]

\* a write that puts the row in the place of the newest row of the table
Overwritten(rows, row) ==
    IF rows = <<>> THEN <<row>> ELSE [rows EXCEPT ![Len(rows)] = row]

\* objects.create inserts the row; the rows already in the table stay
\* (executors.py:55, 77)
create(rows, row) == Append(rows, row)

\* the frame of a conversation that is not inside execute_tool
IdleFrame ==
    [pc |-> "idle", name |-> "", user |-> "none", args |-> "none",
     tool |-> NoTool, call |-> 0, outcome |-> "", error |-> <<>>,
     execution_time |-> 0, result |-> NoResult]


(***************************************************************************)
(* The bootstrap tool, retriever.py:14-100.                                *)
(***************************************************************************)
\* the argument dictionaries the model sends with a tool_retriever call:
\* {}, {intent_category: "wellbeing"}, {query: "mood"} and a dictionary with
\* a key that is no parameter of tool_retriever
RetrieverArgs == {"none", "category", "query", "extra"}

\* the argument dictionary sent with any other tool call
ToolArgs == {"none"}

\* Python's None: the value of a parameter that is not given, and of `tools`
\* when tools are disabled
None == <<"None">>

\* the rows in the order of Meta.ordering = [category, name]
TableOrder == <<"old_tool", "log_mood", "start_checkin">>

\* the text columns of the rows, letter by letter: name, display_name and
\* description (models.py:45-61)
ToolText(name) ==
    CASE name = "start_checkin" ->
            [name |-> <<"s", "t", "a", "r", "t", "_", "c", "h", "e", "c", "k", "i", "n">>,
             display_name |-> <<"C", "h", "e", "c", "k", "-", "i", "n">>,
             description |-> <<"D", "a", "i", "l", "y">>]
      [] name = "log_mood" ->
            [name |-> <<"l", "o", "g", "_", "m", "o", "o", "d">>,
             display_name |-> <<"M", "o", "o", "d">>,
             description |-> <<"D", "a", "i", "l", "y", " ", "l", "o", "g">>]
      [] OTHER ->
            [name |-> <<"o", "l", "d", "_", "t", "o", "o", "l">>,
             display_name |-> <<"M", "o", "o", "d">>,
             description |-> <<"O", "l", "d">>]

\* the values of intent_category / category a caller passes
Categories == {<<"wellbeing">>, <<"tasks">>, <<"reminders">>}

\* the values of query a caller passes: mood, MOOD, check-, daily, old, zz
Queries ==
    {<<"m", "o", "o", "d">>, <<"M", "O", "O", "D">>,
     <<"c", "h", "e", "c", "k", "-">>, <<"d", "a", "i", "l", "y">>,
     <<"o", "l", "d">>, <<"z", "z">>}

\* the lower-case letter of a letter
Lower(ch) ==
    CASE ch = "C" -> "c"
      [] ch = "D" -> "d"
      [] ch = "M" -> "m"
      [] ch = "O" -> "o"
      [] OTHER -> ch

LowerText(text) == [k \in 1..Len(text) |-> Lower(text[k])]

\* a substring test that tells upper case from lower case
ContainsExact(text, q) ==
    \E k \in 1..(Len(text) - Len(q) + 1) : SubSeq(text, k, k + Len(q) - 1) = q

\* column__icontains=q: q is a substring of the column, whatever the case
Contains(text, q) ==
    \E k \in 1..(Len(text) - Len(q) + 1) :
        SubSeq(LowerText(text), k, k + Len(q) - 1) = LowerText(q)

\* Q(name__icontains=query) | Q(description__icontains=query) |
\* Q(display_name__icontains=query) (retriever.py:64-66, registry.py:65-67)
QueryMatches(name, query) ==
    \/ Contains(ToolText(name).name, query)
    \/ Contains(ToolText(name).description, query)
    \/ Contains(ToolText(name).display_name, query)

\* the truth value of a parameter: None and the empty string count as absent
Given(param) == param # None /\ param # <<>>

\* ToolDefinition.objects.filter(category=category, is_active=True)
ByCategory(category) ==
    SelectSeq(TableOrder,
              LAMBDA n : ToolConfig(n).is_active /\ <<ToolConfig(n).category>> = category)

\* ToolDefinition.objects.filter(Q(...) | Q(...) | Q(...), is_active=True)
ByQuery(query) ==
    SelectSeq(TableOrder, LAMBDA n : ToolConfig(n).is_active /\ QueryMatches(n, query))

\* ToolDefinition.objects.filter(is_active=True)
ActiveTools == SelectSeq(TableOrder, LAMBDA n : ToolConfig(n).is_active)

\* the rows tool_retriever selects, retriever.py:54-73
Retrieved(intent_category, query) ==
    IF Given(intent_category) THEN ByCategory(intent_category)
    ELSE IF Given(query) THEN ByQuery(query)
    ELSE ActiveTools

\* the dictionary tool_retriever returns, retriever.py:75-90
RetrieverDict(intent_category, query) ==
    [success |-> TRUE,
     tools_count |-> Len(Retrieved(intent_category, query)),
     tools |-> Retrieved(intent_category, query)]

\* ToolRegistry.get_tools_by_category, get_all_tools and search_tools,
\* registry.py:41-71
get_tools_by_category(category) == ByCategory(category)

get_all_tools == ActiveTools

search_tools(query) == ByQuery(query)

\* the rows selected for the argument dictionaries of RetrieverArgs
Matching(args) ==
    CASE args = "category" -> Retrieved(<<"wellbeing">>, None)
      [] args = "query" -> Retrieved(None, <<"m", "o", "o", "d">>)
      [] OTHER -> Retrieved(None, None)

\* retriever.py:86-92
tool_retriever(args) == Result(TRUE, <<>>, Matching(args), "")

\* retriever.py:94-100: a failure of the query is caught and reported with
\* str(e) and an empty list of tools
RetrieverFailed == Result(FALSE, StorageError, <<>>, "tools")

\* str(e) of the TypeError of tool_retriever(user=user, **parameters)
KeywordError == <<"unexpected", "keyword", "argument">>

(***************************************************************************)
(* ToolRegistry.execute_tool, registry.py:73-105.                          *)
(***************************************************************************)
\* the frame of a conversation that has just called execute_tool
CallFrame(name, args, user) ==
    [IdleFrame EXCEPT !.pc = "called", !.name = name, !.args = args,
                      !.user = user]

Returned(frame, result) == [frame EXCEPT !.pc = "returned", !.result = result]

Raised(frame, error) == [frame EXCEPT !.pc = "raised", !.error = error]

\* some other conversation is inside ToolExecutor.execute
Busy(c) ==
    \E d \in Conversations \ {c} :
        ex[d].pc \in {"dispatch", "log_success", "stats_success",
                      "log_error", "stats_error"}

\* a registry without the special case of the bootstrap tool
NoSpecialCase(name) == FALSE

\* registry.py:82: if tool_name == 'tool_retriever'
IsRetriever(name) == name = TOOL_RETRIEVER

\* registry.py:82-105: the retriever is served directly; any other name is
\* looked up, checked against the principal and handed to the executor.  The
\* query of the retriever can fail (retriever.py:94-100); the failure is
\* taken for the call without arguments
execute_tool(c) ==
    /\ UNCHANGED orchVars
    /\ ex[c].pc = "called"
    /\ UNCHANGED <<tooldefs, executions, invoked, finished>>
    /\ IF IsRetriever(ex[c].name)
       THEN /\ \/ /\ ex' = [ex EXCEPT ![c] =
                              IF ex[c].args = "extra"
                              THEN Raised(@, KeywordError)
                              ELSE Returned(@, tool_retriever(ex[c].args))]
                  /\ UNCHANGED faults
               \/ /\ ex[c].args = "none"
                  /\ faults < MaxFaults
                  /\ faults' = faults + 1
                  /\ ex' = [ex EXCEPT ![c] = Returned(@, RetrieverFailed)]
            /\ UNCHANGED <<calls, overlapped>>
       ELSE IF ~Found(ex[c].name)
       THEN /\ ex' = [ex EXCEPT ![c] = Returned(@, NotFoundResult(ex[c].name))]
            /\ UNCHANGED <<calls, overlapped, faults>>
       ELSE IF ToolConfig(ex[c].name).requires_auth /\ ex[c].user = "none"
       THEN /\ ex' = [ex EXCEPT ![c] = Raised(@, NoneUserError)]
            /\ UNCHANGED <<calls, overlapped, faults>>
       ELSE IF ToolConfig(ex[c].name).requires_auth /\ ex[c].user = "anonymous"
       THEN /\ ex' = [ex EXCEPT ![c] = Returned(@, AuthRequiredResult)]
            /\ UNCHANGED <<calls, overlapped, faults>>
       ELSE /\ ex' = [ex EXCEPT ![c] =
                        [@ EXCEPT !.pc = "dispatch",
                                  !.tool = Load(tooldefs, ex[c].name),
                                  !.call = calls + 1]]
            /\ calls' = calls + 1
            /\ overlapped' = (overlapped \/ Busy(c))
            /\ UNCHANGED faults

(***************************************************************************)
(* ToolExecutor.execute, executors.py:25-93.                               *)
(***************************************************************************)
\* the time a backend call takes: a call that runs into its timeout is slow,
\* any other call is fast
Elapsed(o) == IF o = "timeout" THEN {t \in Durations : t > 1} ELSE {1}

\* execution_time as the handler of line 71 takes it again at line 72, after
\* the value of line 52
Later(execution_time) == {t \in Durations : t >= execution_time}

\* executors.py:39-50: the backend of the tool's execution_type runs; it
\* returns a JSON value or raises.  Every backend reads user.id, user.email
\* and user.username first, which only a User row has.
Dispatch(c) ==
    /\ UNCHANGED orchVars
    /\ ex[c].pc = "dispatch"
    /\ \E o \in BackendOutcomes :
       \E t \in Elapsed(o) :
          ex' = [ex EXCEPT ![c] =
                  IF ~IsUser(ex[c].user)
                  THEN [@ EXCEPT !.pc = "log_error", !.outcome = "error",
                                 !.error = IF ex[c].user = "none"
                                           THEN NoneUserError
                                           ELSE AnonymousUserError,
                                 !.execution_time = t]
                  ELSE IF o = "ok"
                  THEN [@ EXCEPT !.pc = "log_success", !.outcome = "ok",
                                 !.execution_time = t]
                  ELSE [@ EXCEPT !.pc = "log_error", !.outcome = o,
                                 !.error = BackendError(
                                     ToolConfig(ex[c].name).execution_type, o),
                                 !.execution_time = t]]
    /\ UNCHANGED <<tooldefs, executions, calls, invoked, faults, finished,
                   overlapped>>

\* executors.py:52-62: the record of a successful execution is written; an
\* exception of the write is caught by the handler of line 71
LogSuccess(c) ==
    /\ UNCHANGED orchVars
    /\ ex[c].pc = "log_success"
    /\ \/ /\ executions' = create(executions,
                              NewExecution(ex[c].tool, "success", ex[c].call,
                                           ex[c].execution_time))
          /\ ex' = [ex EXCEPT ![c].pc = "stats_success"]
          /\ UNCHANGED faults
       \/ /\ faults < MaxFaults
          /\ faults' = faults + 1
          /\ \E t \in Later(ex[c].execution_time) :
                ex' = [ex EXCEPT ![c] =
                        [@ EXCEPT !.pc = "log_error", !.error = StorageError,
                                  !.execution_time = t]]
          /\ UNCHANGED executions
    /\ UNCHANGED <<tooldefs, calls, invoked, finished, overlapped>>

\* the entry of `finished` for the call of a frame
Finish(frame, how) ==
    [call |-> frame.call, tool |-> frame.name, outcome |-> frame.outcome,
     how |-> how]

\* executors.py:64-69: tool.update_stats(success=True, ...) and the return
\* of the backend's result; an exception of the save is caught by line 71,
\* the in-memory object keeps its increments
StatsSuccess(c) ==
    /\ UNCHANGED orchVars
    /\ ex[c].pc = "stats_success"
    /\ \/ /\ tooldefs' = save(tooldefs, update_stats(ex[c].tool, TRUE,
                                                     ex[c].execution_time))
          /\ ex' = [ex EXCEPT ![c] =
                      Returned([@ EXCEPT !.tool =
                                   update_stats(@, TRUE, ex[c].execution_time)],
                               BackendResult(
                                   ToolConfig(ex[c].name).execution_type))]
          /\ finished' = Append(finished, Finish(ex[c], "returned"))
          /\ UNCHANGED faults
       \/ /\ faults < MaxFaults
          /\ faults' = faults + 1
          /\ \E t \in Later(ex[c].execution_time) :
                ex' = [ex EXCEPT ![c] =
                        [@ EXCEPT !.pc = "log_error", !.error = StorageError,
                                  !.tool = update_stats(@, TRUE,
                                                        ex[c].execution_time),
                                  !.execution_time = t]]
          /\ UNCHANGED <<tooldefs, finished>>
    /\ UNCHANGED <<executions, calls, invoked, overlapped>>

\* executors.py:71-84: the handler writes the record of a failed execution;
\* the user column is not nullable, and an exception of this write leaves
\* execute
LogError(c) ==
    /\ UNCHANGED orchVars
    /\ ex[c].pc = "log_error"
    /\ \/ /\ IsUser(ex[c].user)
          /\ executions' = create(executions,
                              NewExecution(ex[c].tool, "error", ex[c].call,
                                           ex[c].execution_time))
          /\ ex' = [ex EXCEPT ![c].pc = "stats_error"]
          /\ UNCHANGED <<faults, finished>>
       \/ /\ ~IsUser(ex[c].user)
          /\ ex' = [ex EXCEPT ![c] = Raised(@, StorageError)]
          /\ finished' = Append(finished, Finish(ex[c], "raised"))
          /\ UNCHANGED <<executions, faults>>
       \/ /\ IsUser(ex[c].user)
          /\ faults < MaxFaults
          /\ faults' = faults + 1
          /\ ex' = [ex EXCEPT ![c] = Raised(@, StorageError)]
          /\ finished' = Append(finished, Finish(ex[c], "raised"))
          /\ UNCHANGED executions
    /\ UNCHANGED <<tooldefs, calls, invoked, overlapped>>

\* executors.py:86-93: tool.update_stats(success=False, ...) and the return
\* of the failure result; an exception of the save leaves execute
StatsError(c) ==
    /\ UNCHANGED orchVars
    /\ ex[c].pc = "stats_error"
    /\ \/ /\ tooldefs' = save(tooldefs, update_stats(ex[c].tool, FALSE,
                                                     ex[c].execution_time))
          /\ ex' = [ex EXCEPT ![c] =
                      Returned([@ EXCEPT !.tool =
                                   update_stats(@, FALSE, ex[c].execution_time)],
                               FailedResult(ex[c].error))]
          /\ finished' = Append(finished, Finish(ex[c], "returned"))
          /\ UNCHANGED faults
       \/ /\ faults < MaxFaults
          /\ faults' = faults + 1
          /\ ex' = [ex EXCEPT ![c] =
                      Raised([@ EXCEPT !.tool =
                                 update_stats(@, FALSE, ex[c].execution_time)],
                             StorageError)]
          /\ finished' = Append(finished, Finish(ex[c], "raised"))
          /\ UNCHANGED tooldefs
    /\ UNCHANGED <<executions, calls, invoked, overlapped>>

(***************************************************************************)
(* SpecExec: conversations that execute tools against the shared database. *)
(* A conversation is reduced to the calls of registry.execute_tool its     *)
(* orchestrator makes (ollama_client.py:107, 230).                         *)
(***************************************************************************)
\* the names a model can put into a tool call: the bootstrap tool, the rows
\* of the table and a name that is no row
CallNames == {TOOL_RETRIEVER, "no_such_tool"} \cup ToolRows

ArgsOf(name) == IF name = TOOL_RETRIEVER THEN RetrieverArgs ELSE ToolArgs

\* ollama_client.py:107 / 230: result = registry.execute_tool(name, params, user)
Invoke(c) ==
    /\ UNCHANGED orchVars
    /\ ex[c].pc = "idle"
    /\ invoked < MaxExecutions
    /\ invoked' = invoked + 1
    /\ \E name \in CallNames, user \in Users :
         \E args \in ArgsOf(name) :
            ex' = [ex EXCEPT ![c] = CallFrame(name, args, user)]
    /\ UNCHANGED <<tooldefs, executions, calls, faults, finished, overlapped>>

\* the call has returned or raised: the conversation goes on
Complete(c) ==
    /\ UNCHANGED orchVars
    /\ ex[c].pc \in {"returned", "raised"}
    /\ ex' = [ex EXCEPT ![c] = IdleFrame]
    /\ UNCHANGED <<tooldefs, executions, calls, invoked, faults, finished,
                   overlapped>>

ExecInit ==
    /\ tooldefs = [t \in ToolRows |-> NewStats]
    /\ executions = <<>>
    /\ ex = [c \in Conversations |-> IdleFrame]
    /\ calls = 0
    /\ invoked = 0
    /\ faults = 0
    /\ finished = <<>>
    /\ overlapped = FALSE

ExecNext ==
    \E c \in Conversations :
        \/ Invoke(c)
        \/ execute_tool(c)
        \/ Dispatch(c)
        \/ LogSuccess(c)
        \/ StatsSuccess(c)
        \/ LogError(c)
        \/ StatsError(c)
        \/ Complete(c)


(***************************************************************************)
(* Messages and texts of the orchestrator.                                 *)
(***************************************************************************)
Msg(role, content, tool_calls) ==
    [role |-> role, content |-> content, tool_calls |-> tool_calls]

\* a Message row / a dictionary of the handler's list: role and content
Plain(role, content) == Msg(role, content, <<>>)

\* PromptManager.get_system_prompt
SystemPrompt == <<"You are LifePal">>

\* ollama_client.py:140
APOLOGY == <<"I apologize, but I'm having trouble completing that request.">>

\* llm_chat/api.py:139
BRAIN_APOLOGY ==
    <<"I'm sorry, I'm having trouble connecting to my brain. Please try again later.">>

\* str(e) of a failure of the inference endpoint
EndpointError == <<"connection", "refused">>

\* str(e) of the AttributeError of registry.get_tool_schema
SchemaError == <<"ToolRegistry", "object", "has", "no", "attribute", "get_tool_schema">>

\* the text of the current user turn
UserText == <<"hello">>

\* the words the model writes
Words == {"hi"}

\* json.dumps(result), ollama_client.py:133: the keys of the dictionary with
\* their values, in insertion order
json_dumps(result) ==
    <<"success", IF result.success THEN "true" ELSE "false">>
    \o (IF result.error # <<>> THEN <<"error">> \o result.error ELSE <<>>)
    \o (IF result.payload = "failed"
        THEN <<"message", "Tool", "execution", "failed:">> \o result.error
        ELSE IF result.payload = "data" THEN <<"data">>
        ELSE IF result.payload = "tools" THEN <<"tools">> ELSE <<>>)
    \o (IF result.success /\ result.payload = ""
        THEN <<"tools_count", ToString(Len(result.tools)), "tools">>
             \o result.tools
        ELSE <<>>)

\* the mark of a message that no tool call produced
NoOrigin == [idx |-> 0, call |-> [name |-> "", args |-> ""]]

\* a formatter that puts the prompt in front of every list
AlwaysPrepended(msgs) == <<Plain("system", SystemPrompt)>> \o msgs

\* PromptManager.format_chat_messages, prompt_manager.py:399-418
format_chat_messages(msgs) ==
    IF msgs = <<>> \/ msgs[1].role # "system"
    THEN <<Plain("system", SystemPrompt)>> \o msgs
    ELSE msgs

\* format_chat_messages hands back its argument itself (prompt_manager.py:418)
SameObject(msgs) == ~(msgs = <<>> \/ msgs[1].role # "system")

\* the conversation the request names: none (a new one is created with its
\* system message), or one whose rows hold no system message
ConversationKinds == {"new", "bare"}

StoredOf(kind) ==
    IF kind = "new" THEN <<>>
    ELSE <<Plain("user", <<"earlier">>), Plain("assistant", <<"answer">>)>>

\* the tool calls a model puts into a response
ModelCalls ==
    {[name |-> TOOL_RETRIEVER, args |-> a] : a \in {"category", "query", "extra"}}
    \cup {[name |-> n, args |-> "none"] : n \in {"start_checkin", "old_tool", "no_such_tool"}}

\* the sequences of at most n tool calls
RECURSIVE Batches(_)
Batches(n) ==
    IF n = 0 THEN {<<>>}
    ELSE Batches(n - 1)
         \cup {Append(b, call) : b \in {x \in Batches(n - 1) : Len(x) = n - 1},
                                 call \in ModelCalls}

\* the content of a response: nothing, or a word while the budget lasts
Contents(n) == {<<>>} \cup (IF n > 0 THEN {<<w>> : w \in Words} ELSE {})

\* the loop condition with the bound included
WhileConditionInclusive(it, max_iterations) == it <= max_iterations

\* the condition of the loop, ollama_client.py:78 and 185
WhileCondition(it, max_iterations) == it < max_iterations

\* the test that ends the exchange without the use_tools flag
NoToolCallsFlagIgnored(use_tools, msg) == msg.tool_calls = <<>>

\* the test that ends the exchange, ollama_client.py:90 and 209
NoToolCalls(use_tools, msg) == ~use_tools \/ msg.tool_calls = <<>>

\* what chat returns for a message without tool calls, ollama_client.py:92
Returns(msg) == msg.content

\* the tool calls taken from the end of the list
ToolCallAtReversed(msg, k) == msg.tool_calls[Len(msg.tool_calls) - k + 1]

\* every turn of the for loop takes the first tool call
ToolCallAtFirst(msg, k) == msg.tool_calls[1]

\* the i-th tool call of the for loop, ollama_client.py:98 and 216
ToolCallAt(msg, k) == msg.tool_calls[k]

\* a tool-role message put in front of the tool-role message before it
InsertedBeforeLast(msg, from) ==
    LET n == Len(current_messages)
        swap == msg.role = "tool" /\ current_messages[n].role = "tool"
        Put(list, x) == IF swap
                        THEN SubSeq(list, 1, n - 1) \o <<x, list[n]>>
                        ELSE Append(list, x)
    IN  /\ current_messages' = Put(current_messages, msg)
        /\ origin' = Put(origin, from)
        /\ messages' = IF aliased THEN Put(messages, msg) ELSE messages

\* appends to the orchestrator's list; the handler's list grows with it when
\* both are one object
Appended(msg, from) ==
    /\ current_messages' = Append(current_messages, msg)
    /\ origin' = Append(origin, from)
    /\ messages' = IF aliased THEN Append(messages, msg) ELSE messages

(***************************************************************************)
(* The request handler send_message, llm_chat/api.py:36-159, and the       *)
(* buffered orchestrator OllamaClient.chat, ollama_client.py:39-144.       *)
(***************************************************************************)
\* api.py:59-80: the conversation is fetched, or created with its system message
GetOrCreateConversation ==
    /\ pc = "request"
    /\ stored' = IF req.conv = "new"
                 THEN Append(stored, Plain("system", SystemPrompt))
                 ELSE stored
    /\ pc' = "save_user"
    /\ UNCHANGED <<pure, req, messages, current_messages, aliased, origin, tools,
                   iterations, message, i, outcome, requests, emitted, budget>>
    /\ UNCHANGED execVars

\* api.py:82-123 (272-293): the user message is saved and the list for the
\* orchestrator is built from the earlier rows and the new message
SaveUserMessage ==
    /\ pc = "save_user"
    /\ stored' = Append(stored, Plain("user", UserText))
    /\ messages' = Append(stored, Plain("user", UserText))
    /\ pc' = "call_chat"
    /\ UNCHANGED <<pure, req, current_messages, aliased, origin, tools, iterations,
                   message, i, outcome, requests, emitted, budget>>
    /\ UNCHANGED execVars

\* a catalog that starts with the active rows of the table next to the
\* bootstrap tool
EagerCatalog(use_tools) ==
    IF use_tools THEN <<TOOL_RETRIEVER>> \o ActiveTools ELSE None

\* ollama_client.py:69-74 (177-181): tools = [registry.get_tool_retriever()],
\* built from TOOL_RETRIEVER_METADATA alone (registry.py:24-39), or None
InitialCatalog(use_tools) == IF use_tools THEN <<TOOL_RETRIEVER>> ELSE None

\* ollama_client.py:60-76 (168-183): the system prompt is ensured and the
\* catalog starts with the bootstrap tool, or is None with tools disabled
Begin ==
    /\ pc = "call_chat"
    /\ current_messages' = format_chat_messages(messages)
    /\ aliased' = SameObject(messages)
    /\ origin' = [k \in 1..Len(format_chat_messages(messages)) |-> NoOrigin]
    /\ tools' = InitialCatalog(req.use_tools)
    /\ iterations' = 0
    /\ pc' = "loop"
    /\ UNCHANGED <<pure, req, stored, messages, message, i, outcome, requests,
                   emitted, budget>>
    /\ UNCHANGED execVars

\* the request of a call to the inference endpoint
Request == [messages |-> current_messages, tools |-> tools]

\* ollama_client.py:78-95: one buffered call of the model; its message ends
\* the exchange or opens a batch of tool calls; a failure of the endpoint
\* leaves chat by the handler of lines 142-144
CallModel ==
    /\ pc = "loop"
    /\ req.mode = "chat"
    /\ WhileCondition(iterations, req.max_iterations)
    /\ requests' = Append(requests, Request)
    /\ \/ /\ outcome' = [kind |-> "raised", value |-> EndpointError]
          /\ pc' = "chat_done"
          /\ UNCHANGED <<message, i, current_messages, origin, messages, budget>>
       \/ \E content \in Contents(MaxWords - budget.words),
             tool_calls \in Batches(MaxToolCalls - budget.calls) :
            /\ message' = Msg("assistant", content, tool_calls)
            /\ budget' = [calls |-> budget.calls + Len(tool_calls),
                          words |-> budget.words + Len(content)]
            /\ IF NoToolCalls(req.use_tools, Msg("assistant", content, tool_calls))
               THEN /\ outcome' = [kind |-> "returned",
                                   value |-> Returns(Msg("assistant", content,
                                                         tool_calls))]
                    /\ pc' = "chat_done"
                    /\ UNCHANGED <<i, current_messages, origin, messages>>
               ELSE /\ Appended(Msg("assistant", content, tool_calls), NoOrigin)
                    /\ i' = 1
                    /\ pc' = "tool_loop"
                    /\ UNCHANGED outcome
    /\ UNCHANGED <<pure, req, stored, aliased, tools, iterations, emitted>>
    /\ UNCHANGED execVars

\* ollama_client.py:78, 138-140: the cap is reached, chat returns the apology
MaxIterationsReached ==
    /\ pc = "loop"
    /\ req.mode = "chat"
    /\ ~WhileCondition(iterations, req.max_iterations)
    /\ outcome' = [kind |-> "returned", value |-> APOLOGY]
    /\ pc' = "chat_done"
    /\ UNCHANGED <<pure, req, stored, messages, current_messages, aliased, origin,
                   tools, iterations, message, i, requests, emitted, budget>>
    /\ UNCHANGED execVars

\* ollama_client.py:98-107: the next tool call of the batch goes to the registry
CallTool ==
    /\ pc = "tool_loop"
    /\ req.mode = "chat"
    /\ i <= Len(message.tool_calls)
    /\ ex' = [ex EXCEPT !["c1"] =
                CallFrame(ToolCallAt(message, i).name, ToolCallAt(message, i).args,
                          req.user)]
    /\ pc' = "in_tool"
    /\ invoked' = invoked + 1
    /\ UNCHANGED <<tooldefs, executions, calls, faults, finished, overlapped>>
    /\ UNCHANGED <<pure, req, stored, messages, current_messages, aliased, origin,
                   tools, iterations, message, i, outcome, requests, emitted,
                   budget>>

\* ollama_client.py:112-121 (234-243): the tool schemas a successful
\* retriever call adds to the catalog; registry.get_tool_schema does not
\* exist, so a query that matches a tool raises AttributeError
Discovered(args) ==
    CASE args = "category" -> [raises |-> FALSE, tools |-> Matching("category")]
      [] args = "query" -> [raises |-> Matching("query") # <<>>, tools |-> <<>>]
      [] OTHER -> [raises |-> FALSE, tools |-> Matching("none")]

\* the call is a retriever call that reported success (line 110 / 233)
Injects(frame) == frame.name = TOOL_RETRIEVER /\ frame.result.success

\* the tool-role message of a result (lines 131-134 / 265-268)
ToolMessage(result) == Msg("tool", json_dumps(result), <<>>)

\* ollama_client.py:109-134: execute_tool has returned; a successful
\* retriever call widens the catalog, then the tool-role message is appended
ToolReturned ==
    /\ pc = "in_tool"
    /\ req.mode = "chat"
    /\ ex["c1"].pc = "returned"
    /\ ex' = [ex EXCEPT !["c1"] = IdleFrame]
    /\ IF Injects(ex["c1"]) /\ Discovered(ex["c1"].args).raises
       THEN /\ outcome' = [kind |-> "raised", value |-> SchemaError]
            /\ pc' = "chat_done"
            /\ UNCHANGED <<tools, current_messages, origin, messages, i>>
       ELSE /\ tools' = IF Injects(ex["c1"])
                        THEN tools \o Discovered(ex["c1"].args).tools
                        ELSE tools
            /\ Appended(ToolMessage(ex["c1"].result),
                        [idx |-> i, call |-> [name |-> ex["c1"].name,
                                              args |-> ex["c1"].args]])
            /\ i' = i + 1
            /\ pc' = "tool_loop"
            /\ UNCHANGED outcome
    /\ UNCHANGED <<pure, req, stored, aliased, iterations, message, requests,
                   emitted, budget>>
    /\ UNCHANGED <<tooldefs, executions, calls, invoked, faults, finished,
                   overlapped>>

\* ollama_client.py:142-144: an exception of execute_tool is logged and
\* raised again
ToolRaised ==
    /\ pc = "in_tool"
    /\ req.mode = "chat"
    /\ ex["c1"].pc = "raised"
    /\ ex' = [ex EXCEPT !["c1"] = IdleFrame]
    /\ outcome' = [kind |-> "raised", value |-> ex["c1"].error]
    /\ pc' = "chat_done"
    /\ UNCHANGED <<pure, req, stored, messages, current_messages, aliased, origin,
                   tools, iterations, message, i, requests, emitted, budget>>
    /\ UNCHANGED <<tooldefs, executions, calls, invoked, faults, finished,
                   overlapped>>

\* ollama_client.py:98, 136: the batch is through, the counter goes up
EndBatch ==
    /\ pc = "tool_loop"
    /\ req.mode = "chat"
    /\ ~(i <= Len(message.tool_calls))
    /\ iterations' = iterations + 1
    /\ pc' = "loop"
    /\ UNCHANGED <<pure, req, stored, messages, current_messages, aliased, origin,
                   tools, message, i, outcome, requests, emitted, budget>>
    /\ UNCHANGED execVars

\* api.py:132-159: the handler takes what chat returned, or its own apology
\* when chat raised, and saves it as the assistant message
SaveAssistant ==
    /\ pc = "chat_done"
    /\ req.mode = "chat"
    /\ stored' = Append(stored,
                    Plain("assistant",
                          IF outcome.kind = "raised" THEN BRAIN_APOLOGY
                          ELSE outcome.value))
    /\ pc' = "done"
    /\ UNCHANGED <<pure, req, messages, current_messages, aliased, origin, tools,
                   iterations, message, i, outcome, requests, emitted, budget>>
    /\ UNCHANGED execVars

(***************************************************************************)
(* The incremental orchestrator OllamaClient.chat_stream,                  *)
(* ollama_client.py:146-278, and its caller send_message_stream,           *)
(* llm_chat/api.py:236-399.                                                *)
(***************************************************************************)
\* what the generator yields: a content fragment (type "content") or one of
\* the event dictionaries tool_call, tools_discovered, tool_result
Event(type, name, content, listed, result) ==
    [type |-> type, name |-> name, content |-> content, tools |-> listed,
     result |-> result]

\* a fragment yielded without its text
DroppedChunk(content) == Event("content", "", <<>>, <<>>, NoResult)

\* ollama_client.py:200-202: yield content
ContentChunk(content) == Event("content", "", content, <<>>, NoResult)

\* ollama_client.py:277
InterruptedText(error) ==
    <<"Error: Connection to AI service interrupted.">> \o error

\* ollama_client.py:185-193: the next streamed call of the model is opened;
\* a failure of the endpoint goes to the handler of line 275
OpenStream ==
    /\ pc = "loop"
    /\ req.mode = "chat_stream"
    /\ WhileCondition(iterations, req.max_iterations)
    /\ requests' = Append(requests, Request)
    /\ \/ /\ outcome' = [kind |-> "raising", value |-> EndpointError]
          /\ pc' = "except"
          /\ UNCHANGED message
       \/ /\ message' = Msg("assistant", <<>>, <<>>)
          /\ pc' = "streaming"
          /\ UNCHANGED outcome
    /\ UNCHANGED <<pure, req, stored, messages, current_messages, aliased, origin,
                   tools, iterations, i, emitted, budget>>
    /\ UNCHANGED execVars

\* ollama_client.py:196-206: one chunk of the stream; its content is yielded
\* at once and added to the synthetic message, its tool calls are collected;
\* the stream can break off with an exception
NextChunk ==
    /\ pc = "streaming"
    /\ \/ /\ outcome' = [kind |-> "raising", value |-> EndpointError]
          /\ pc' = "except"
          /\ UNCHANGED <<message, emitted, budget>>
       \/ \E content \in Contents(MaxWords - budget.words),
             tool_calls \in Batches(MaxToolCalls - budget.calls) :
            /\ content # <<>> \/ tool_calls # <<>>
            /\ message' = [message EXCEPT !.content = @ \o content,
                                          !.tool_calls = @ \o tool_calls]
            /\ emitted' = IF content # <<>>
                          THEN Append(emitted, ContentChunk(content))
                          ELSE emitted
            /\ budget' = [calls |-> budget.calls + Len(tool_calls),
                          words |-> budget.words + Len(content)]
            /\ UNCHANGED <<outcome, pc>>
    /\ UNCHANGED <<pure, req, stored, messages, current_messages, aliased, origin,
                   tools, iterations, i, requests>>
    /\ UNCHANGED execVars

\* ollama_client.py:208-213, 272: the stream is exhausted; without tool calls
\* the loop is left and the generator ends, otherwise the synthetic message
\* is appended and its batch is run
EndOfStream ==
    /\ pc = "streaming"
    /\ IF NoToolCalls(req.use_tools, message)
       THEN /\ outcome' = [kind |-> "returned", value |-> <<>>]
            /\ pc' = "chat_done"
            /\ UNCHANGED <<i, current_messages, origin, messages>>
       ELSE /\ Appended(message, NoOrigin)
            /\ i' = 1
            /\ pc' = "tool_loop"
            /\ UNCHANGED outcome
    /\ UNCHANGED <<pure, req, stored, aliased, tools, iterations, message, requests,
                   emitted, budget>>
    /\ UNCHANGED execVars

\* ollama_client.py:185, 272-273: the cap is reached; a warning is logged and
\* the generator ends
StreamCapReached ==
    /\ pc = "loop"
    /\ req.mode = "chat_stream"
    /\ ~WhileCondition(iterations, req.max_iterations)
    /\ outcome' = [kind |-> "returned", value |-> <<>>]
    /\ pc' = "chat_done"
    /\ UNCHANGED <<pure, req, stored, messages, current_messages, aliased, origin,
                   tools, iterations, message, i, requests, emitted, budget>>
    /\ UNCHANGED execVars

\* ollama_client.py:216-230: the tool_call event is yielded, then the call
\* goes to the registry
StreamCallTool ==
    /\ pc = "tool_loop"
    /\ req.mode = "chat_stream"
    /\ i <= Len(message.tool_calls)
    /\ emitted' = Append(emitted,
                    Event("tool_call", ToolCallAt(message, i).name, <<>>, <<>>,
                          NoResult))
    /\ ex' = [ex EXCEPT !["c1"] =
                CallFrame(ToolCallAt(message, i).name, ToolCallAt(message, i).args,
                          req.user)]
    /\ pc' = "in_tool"
    /\ invoked' = invoked + 1
    /\ UNCHANGED <<tooldefs, executions, calls, faults, finished, overlapped>>
    /\ UNCHANGED <<pure, req, stored, messages, current_messages, aliased, origin,
                   tools, iterations, message, i, outcome, requests, budget>>

\* the events of a returned call with the result in front
ResultEventsReversed(frame) ==
    <<Event("tool_result", frame.name, <<>>, <<>>, frame.result)>>
    \o (IF frame.name = TOOL_RETRIEVER /\ frame.result.success
        THEN <<Event("tools_discovered", "", <<>>, <<>>, NoResult)>>
        ELSE <<>>)

\* the events of a returned call: tools_discovered after a successful
\* retriever call (lines 250-255), then tool_result (lines 258-262)
ResultEvents(frame) ==
    (IF Injects(frame)
     THEN <<Event("tools_discovered", "", <<>>, Discovered(frame.args).tools,
                  NoResult)>>
     ELSE <<>>)
    \o <<Event("tool_result", frame.name, <<>>, <<>>, frame.result)>>

\* ollama_client.py:232-268: execute_tool has returned; the catalog is
\* widened, the events are yielded and the tool-role message is appended
StreamToolReturned ==
    /\ pc = "in_tool"
    /\ req.mode = "chat_stream"
    /\ ex["c1"].pc = "returned"
    /\ ex' = [ex EXCEPT !["c1"] = IdleFrame]
    /\ IF Injects(ex["c1"]) /\ Discovered(ex["c1"].args).raises
       THEN /\ outcome' = [kind |-> "raising", value |-> SchemaError]
            /\ pc' = "except"
            /\ UNCHANGED <<tools, current_messages, origin, messages, i, emitted>>
       ELSE /\ tools' = IF Injects(ex["c1"])
                        THEN tools \o Discovered(ex["c1"].args).tools
                        ELSE tools
            /\ emitted' = emitted \o ResultEvents(ex["c1"])
            /\ Appended(ToolMessage(ex["c1"].result),
                        [idx |-> i, call |-> [name |-> ex["c1"].name,
                                              args |-> ex["c1"].args]])
            /\ i' = i + 1
            /\ pc' = "tool_loop"
            /\ UNCHANGED outcome
    /\ UNCHANGED <<pure, req, stored, aliased, iterations, message, requests, budget>>
    /\ UNCHANGED <<tooldefs, executions, calls, invoked, faults, finished,
                   overlapped>>

\* an exception of execute_tool goes to the handler of line 275
StreamToolRaised ==
    /\ pc = "in_tool"
    /\ req.mode = "chat_stream"
    /\ ex["c1"].pc = "raised"
    /\ ex' = [ex EXCEPT !["c1"] = IdleFrame]
    /\ outcome' = [kind |-> "raising", value |-> ex["c1"].error]
    /\ pc' = "except"
    /\ UNCHANGED <<pure, req, stored, messages, current_messages, aliased, origin,
                   tools, iterations, message, i, requests, emitted, budget>>
    /\ UNCHANGED <<tooldefs, executions, calls, invoked, faults, finished,
                   overlapped>>

\* ollama_client.py:216, 270: the batch is through, the counter goes up
StreamEndBatch ==
    /\ pc = "tool_loop"
    /\ req.mode = "chat_stream"
    /\ ~(i <= Len(message.tool_calls))
    /\ iterations' = iterations + 1
    /\ pc' = "loop"
    /\ UNCHANGED <<pure, req, stored, messages, current_messages, aliased, origin,
                   tools, message, i, outcome, requests, emitted, budget>>
    /\ UNCHANGED execVars

\* ollama_client.py:275-278: the handler yields the interruption text with
\* the text of the exception and raises again
StreamExcept ==
    /\ pc = "except"
    /\ emitted' = Append(emitted, ContentChunk(InterruptedText(outcome.value)))
    /\ outcome' = [kind |-> "raised", value |-> outcome.value]
    /\ pc' = "chat_done"
    /\ UNCHANGED <<pure, req, stored, messages, current_messages, aliased, origin,
                   tools, iterations, message, i, requests, budget>>
    /\ UNCHANGED execVars

\* full_content of stream_response (api.py:315-318): the content fragments
\* received so far, in order
RECURSIVE full_content(_)
full_content(events) ==
    IF events = <<>> THEN <<>>
    ELSE (IF events[1].type = "content" THEN events[1].content ELSE <<>>)
         \o full_content(Tail(events))

\* api.py:322-325
StreamErrorMsg(error) == BRAIN_APOLOGY \o <<"Error:">> \o error

\* api.py:322-397: the stream is through or has raised; the handler saves
\* the accumulated content, or its own error message, as the assistant message
SaveAssistantStream ==
    /\ pc = "chat_done"
    /\ req.mode = "chat_stream"
    /\ stored' = Append(stored,
                    Plain("assistant",
                          IF outcome.kind = "raised"
                          THEN StreamErrorMsg(outcome.value)
                          ELSE full_content(emitted)))
    /\ pc' = "done"
    /\ UNCHANGED <<pure, req, messages, current_messages, aliased, origin, tools,
                   iterations, message, i, outcome, requests, emitted, budget>>
    /\ UNCHANGED execVars

(***************************************************************************)
(* The history processor of the agents, memory_service.py:10-35, and the   *)
(* applications of the pure functions to inputs of their own.              *)
(***************************************************************************)
\* a history of n messages, which differ by their position
History(n) ==
    [k \in 1..n |-> Plain(IF k % 2 = 1 THEN "user" ELSE "assistant", <<ToString(k)>>)]

\* a history of n messages with tool turns: a user message, the assistant
\* message that requests a tool, the tool-role message of the result, and
\* the assistant's answer, again and again
ToolHistory(n) ==
    [k \in 1..n |->
        CASE k % 4 = 1 -> Plain("user", <<ToString(k)>>)
          [] k % 4 = 2 -> Msg("assistant", <<>>,
                              <<[name |-> "start_checkin", args |-> "none"]>>)
          [] k % 4 = 3 -> Msg("tool", <<ToString(k)>>, <<>>)
          [] OTHER -> Plain("assistant", <<ToString(k)>>)]

Histories ==
    {History(n) : n \in 0..MaxHistory} \cup {ToolHistory(n) : n \in 0..MaxHistory}

\* ctx.deps.current_tokens and ctx.deps.max_tokens (memory_service.py:18-19)
Tokens == 0..MaxTokens

\* messages[-keep_count:] for keep_count >= 1: the last keep_count messages,
\* all of them when there are fewer (memory_service.py:31)
TailSlice(msgs, keep_count) ==
    IF keep_count >= Len(msgs) THEN msgs
    ELSE SubSeq(msgs, Len(msgs) - keep_count + 1, Len(msgs))

\* max(2, int(len(messages) * 0.2)): int() drops the fraction
\* (memory_service.py:29)
keep_count(msgs) == IF Len(msgs) \div 5 > 2 THEN Len(msgs) \div 5 ELSE 2

\* percentage = (current_tokens / max_tokens) * 100 divides by max_tokens
\* before anything is returned (memory_service.py:22)
PrunerRaises(max_tokens) == max_tokens = 0

\* current_tokens > max_tokens * 0.5 (memory_service.py:21, 28)
OverThreshold(current_tokens, max_tokens) == 2 * current_tokens > max_tokens

\* MemoryService.pruning_processor, memory_service.py:11-35
pruning_processor(msgs, current_tokens, max_tokens) ==
    IF OverThreshold(current_tokens, max_tokens)
    THEN TailSlice(msgs, keep_count(msgs))
    ELSE msgs

\* the message lists of at most n messages by role
RECURSIVE MessageLists(_)
MessageLists(n) ==
    IF n = 0 THEN {<<>>}
    ELSE MessageLists(n - 1)
         \cup {Append(l, Plain(r, IF r = "system" THEN SystemPrompt ELSE <<r>>)) :
                 l \in {x \in MessageLists(n - 1) : Len(x) = n - 1},
                 r \in {"system", "user", "assistant"}}

\* no function is being applied
NoRun == [fn |-> "none", messages |-> <<>>, current_tokens |-> 0, max_tokens |-> 0,
          intent_category |-> None, query |-> None,
          pc |-> "none", once |-> <<>>, twice |-> <<>>]

\* the functions that look tools up in the table
Lookups == {"tool_retriever", "get_tools_by_category", "get_all_tools", "search_tools"}

\* the applications that can be asked for
PureInputs ==
    {[NoRun EXCEPT !.fn = "pruning_processor", !.messages = h,
                   !.current_tokens = t, !.max_tokens = m, !.pc = "start"] :
        h \in Histories, t \in Tokens, m \in Tokens}
    \cup {[NoRun EXCEPT !.fn = "format_chat_messages", !.messages = l,
                        !.pc = "start"] :
            l \in MessageLists(MaxMessages)}
    \cup {[NoRun EXCEPT !.fn = "tool_retriever", !.intent_category = category,
                        !.query = query, !.pc = "start"] :
            category \in Categories \cup {None, <<>>},
            query \in Queries \cup {None, <<>>}}
    \cup {[NoRun EXCEPT !.fn = "get_tools_by_category",
                        !.intent_category = category, !.pc = "start"] :
            category \in Categories}
    \cup {[NoRun EXCEPT !.fn = "search_tools", !.query = query, !.pc = "start"] :
            query \in Queries \cup {<<>>}}
    \cup {[NoRun EXCEPT !.fn = "get_all_tools", !.pc = "start"]}

\* tool_retriever is called with its two optional parameters
\* (retriever.py:14-92)
Retrieve ==
    /\ pure.fn = "tool_retriever"
    /\ pure.pc = "start"
    /\ pure' = [pure EXCEPT !.pc = "once",
                            !.once = RetrieverDict(pure.intent_category, pure.query)]
    /\ UNCHANGED <<req, pc, stored, messages, current_messages, aliased, origin,
                   tools, iterations, message, i, outcome, requests, emitted, budget>>
    /\ UNCHANGED execVars

\* one of the lookups of the registry is called (registry.py:41-71)
Lookup ==
    /\ pure.fn \in Lookups \ {"tool_retriever"}
    /\ pure.pc = "start"
    /\ pure' = [pure EXCEPT
                  !.pc = "once",
                  !.once = CASE pure.fn = "get_tools_by_category" ->
                                    get_tools_by_category(pure.intent_category)
                             [] pure.fn = "search_tools" -> search_tools(pure.query)
                             [] OTHER -> get_all_tools]
    /\ UNCHANGED <<req, pc, stored, messages, current_messages, aliased, origin,
                   tools, iterations, message, i, outcome, requests, emitted, budget>>
    /\ UNCHANGED execVars

\* the history processor runs on the history (memory_service.py:11-35)
Prune ==
    /\ pure.fn = "pruning_processor"
    /\ pure.pc = "start"
    /\ pure' = IF PrunerRaises(pure.max_tokens)
               THEN [pure EXCEPT !.pc = "raised"]
               ELSE [pure EXCEPT !.pc = "once",
                                 !.once = pruning_processor(pure.messages,
                                              pure.current_tokens, pure.max_tokens)]
    /\ UNCHANGED <<req, pc, stored, messages, current_messages, aliased, origin,
                   tools, iterations, message, i, outcome, requests, emitted, budget>>
    /\ UNCHANGED execVars

\* the history processor runs on its own result, with the same token counts
PruneAgain ==
    /\ pure.fn = "pruning_processor"
    /\ pure.pc = "once"
    /\ pure' = [pure EXCEPT !.pc = "twice",
                            !.twice = pruning_processor(pure.once,
                                          pure.current_tokens, pure.max_tokens)]
    /\ UNCHANGED <<req, pc, stored, messages, current_messages, aliased, origin,
                   tools, iterations, message, i, outcome, requests, emitted, budget>>
    /\ UNCHANGED execVars

\* format_chat_messages runs on a message list (prompt_manager.py:399-418)
Format ==
    /\ pure.fn = "format_chat_messages"
    /\ pure.pc = "start"
    /\ pure' = [pure EXCEPT !.pc = "once",
                            !.once = format_chat_messages(pure.messages)]
    /\ UNCHANGED <<req, pc, stored, messages, current_messages, aliased, origin,
                   tools, iterations, message, i, outcome, requests, emitted, budget>>
    /\ UNCHANGED execVars

\* format_chat_messages runs on its own result
FormatAgain ==
    /\ pure.fn = "format_chat_messages"
    /\ pure.pc = "once"
    /\ pure' = [pure EXCEPT !.pc = "twice",
                            !.twice = format_chat_messages(pure.once)]
    /\ UNCHANGED <<req, pc, stored, messages, current_messages, aliased, origin,
                   tools, iterations, message, i, outcome, requests, emitted, budget>>
    /\ UNCHANGED execVars

(***************************************************************************)
(* Spec: one request of one conversation, from its arrival to the saved    *)
(* answer, with the executions of its tools.                               *)
(***************************************************************************)
Modes == {"chat", "chat_stream"}

\* the orchestrator's variables when a request with conversation `kind` arrives
Arrived(first, kind) ==
    /\ pc = first
    /\ stored = StoredOf(kind)
    /\ messages = <<>>
    /\ current_messages = <<>>
    /\ aliased = FALSE
    /\ origin = <<>>
    /\ tools = None
    /\ iterations = 0
    /\ message = Msg("assistant", <<>>, <<>>)
    /\ i = 0
    /\ outcome = [kind |-> "none", value |-> <<>>]
    /\ requests = <<>>
    /\ emitted = <<>>
    /\ budget = [calls |-> 0, words |-> 0]
    /\ pure = NoRun

Init ==
    /\ ExecInit
    /\ req \in [mode : Modes, use_tools : BOOLEAN,
                 max_iterations : 1..MaxIterations, user : Users,
                 conv : ConversationKinds]
    /\ Arrived("request", req.conv)

\* SpecExec starts with no request at the handler
InitExec ==
    /\ ExecInit
    /\ req = [mode |-> "chat", use_tools |-> TRUE, max_iterations |-> 1,
              user |-> "none", conv |-> "new"]
    /\ Arrived("none", "new")

SpecExec == InitExec /\ [][ExecNext]_vars

Next ==
    \/ GetOrCreateConversation
    \/ SaveUserMessage
    \/ Begin
    \/ CallModel
    \/ MaxIterationsReached
    \/ CallTool
    \/ execute_tool("c1")
    \/ Dispatch("c1")
    \/ LogSuccess("c1")
    \/ StatsSuccess("c1")
    \/ LogError("c1")
    \/ StatsError("c1")
    \/ ToolReturned
    \/ ToolRaised
    \/ EndBatch
    \/ SaveAssistant
    \/ OpenStream
    \/ NextChunk
    \/ EndOfStream
    \/ StreamCapReached
    \/ StreamCallTool
    \/ StreamToolReturned
    \/ StreamToolRaised
    \/ StreamEndBatch
    \/ StreamExcept
    \/ SaveAssistantStream

Spec == Init /\ [][Next]_vars

(***************************************************************************)
(* SpecPure: one pure function applied to one input, and to its result.    *)
(***************************************************************************)
InitPure ==
    /\ ExecInit
    /\ req = [mode |-> "chat", use_tools |-> TRUE, max_iterations |-> 1,
              user |-> "none", conv |-> "new"]
    /\ pc = "none"
    /\ stored = <<>>
    /\ messages = <<>>
    /\ current_messages = <<>>
    /\ aliased = FALSE
    /\ origin = <<>>
    /\ tools = None
    /\ iterations = 0
    /\ message = Msg("assistant", <<>>, <<>>)
    /\ i = 0
    /\ outcome = [kind |-> "none", value |-> <<>>]
    /\ requests = <<>>
    /\ emitted = <<>>
    /\ budget = [calls |-> 0, words |-> 0]
    /\ pure \in PureInputs

NextPure ==
    \/ Prune
    \/ PruneAgain
    \/ Format
    \/ FormatAgain
    \/ Retrieve
    \/ Lookup

SpecPure == InitPure /\ [][NextPure]_vars

(***************************************************************************)
(* Properties.                                                             *)
(***************************************************************************)
\* chat / chat_stream has ended (returned, or raised to the handler)
Ended == pc \in {"chat_done", "done"}

\* the loop was left because the counter reached max_iterations
CapReached == Ended /\ iterations = req.max_iterations

\* the rows of the conversation when the user message arrives (api.py:82)
StoredAtSend ==
    IF req.conv = "new" THEN <<Plain("system", SystemPrompt)>>
    ELSE StoredOf(req.conv)

\* the messages from position k on are tool-role messages
ToolTail(msgs, k) == \A m \in k..Len(msgs) : msgs[m].role = "tool"

\* C1: in buffered mode the orchestrator never makes more than
\* max_iterations calls to the inference endpoint, whatever the model
\* answers; when the cap is reached chat returns the fixed apology, it does
\* not raise, the history ends with the tool messages of the last batch
\* (nothing is appended after them), and the handler saves the apology.
C1_IterationCap ==
    req.mode = "chat" =>
        /\ Len(requests) <= req.max_iterations
        /\ CapReached =>
            /\ outcome = [kind |-> "returned", value |-> APOLOGY]
            /\ Len(requests) = req.max_iterations
            /\ Len(current_messages) =
                 Len(requests[Len(requests)].messages) + 1
                 + Len(message.tool_calls)
            /\ current_messages[Len(requests[Len(requests)].messages) + 1]
                 = message
            /\ ToolTail(current_messages,
                        Len(requests[Len(requests)].messages) + 2)
            /\ pc = "done" =>
                 stored[Len(stored)] = Plain("assistant", APOLOGY)

\* C1 witness: a model that asked for tools in every round of the largest
\* cap explored, and the request is answered
C1_Witness ==
    /\ req.mode = "chat"
    /\ pc = "done"
    /\ req.max_iterations = MaxIterations
    /\ iterations = req.max_iterations
    /\ Len(requests) = MaxIterations

\* C2: in incremental mode, when the cap is reached, the generator ends
\* normally and the last thing it has yielded is the fixed apology as content.
C2_StreamCapApology ==
    (req.mode = "chat_stream" /\ CapReached) =>
        /\ outcome.kind = "returned"
        /\ emitted # <<>>
        /\ emitted[Len(emitted)] = ContentChunk(APOLOGY)

Requester(msgs, k) ==
    CHOOSE a \in 0..(k - 1) :
        /\ a = 0 \/ msgs[a].role # "tool"
        /\ \A m \in (a + 1)..(k - 1) : msgs[m].role = "tool"

\* C4 as stated: every tool-role message of the message list stands directly
\* behind an assistant message whose tool-call list holds the invocation
\* that produced it.
C4_ToolDirectlyAfterAssistant ==
    \A k \in 1..Len(current_messages) :
        current_messages[k].role = "tool" =>
            /\ k > 1
            /\ current_messages[k - 1].role = "assistant"
            /\ \E j \in 1..Len(current_messages[k - 1].tool_calls) :
                  current_messages[k - 1].tool_calls[j] = origin[k].call

\* C4 amended: every tool-role message belongs to the batch of the nearest
\* assistant message before it: only tool-role messages stand between the
\* two, and the j-th message behind the assistant message was produced by
\* the j-th invocation of that message's tool-call list.
C4_ToolAfterItsBatch ==
    \A k \in 1..Len(current_messages) :
        current_messages[k].role = "tool" =>
            LET a == Requester(current_messages, k) IN
            /\ a >= 1
            /\ current_messages[a].role = "assistant"
            /\ k - a <= Len(current_messages[a].tool_calls)
            /\ current_messages[a].tool_calls[k - a] = origin[k].call
            /\ origin[k].idx = k - a

\* C4 witness: a batch of two calls has left two tool-role messages in a row
C4_Witness ==
    \E k \in 2..Len(current_messages) :
        /\ current_messages[k].role = "tool"
        /\ current_messages[k - 1].role = "tool"
        /\ origin[k].call # origin[k - 1].call

\* C5: nothing but a failure of the inference endpoint leaves the
\* orchestrator as an exception; a failure of a tool call is a tool-role
\* message and the loop goes on.
C5_OnlyEndpointFailuresPropagate ==
    outcome.kind \in {"raising", "raised"} => outcome.value = EndpointError

\* the name is neither the bootstrap tool nor an active row
Absent(name) == name # TOOL_RETRIEVER /\ ~Found(name)

\* C6: a tool call that names no active row never raises and never reaches
\* the executor: the registry returns success = false with the not-found
\* text, the orchestrator appends exactly one tool-role message carrying
\* that result and goes on with the next call of the batch, and a batch
\* that is through leads to the next turn of the loop.
C6_UnknownToolGoesOn ==
    /\ [][(pc = "in_tool" /\ ex["c1"].pc = "called" /\ Absent(ex["c1"].name)) =>
            /\ ex'["c1"].pc = "returned"
            /\ ex'["c1"].result = NotFoundResult(ex["c1"].name)
            /\ ~ex'["c1"].result.success
            /\ ex'["c1"].result.error # <<>>
            /\ pc' = "in_tool"
            /\ UNCHANGED <<tooldefs, executions, calls, current_messages>>]_vars
    /\ [][(pc = "in_tool" /\ ex["c1"].pc = "returned" /\ Absent(ex["c1"].name)) =>
            /\ current_messages' =
                 Append(current_messages,
                        ToolMessage(NotFoundResult(ex["c1"].name)))
            /\ i' = i + 1
            /\ pc' = "tool_loop"
            /\ UNCHANGED <<outcome, iterations, tools>>]_vars
    /\ [][(pc = "tool_loop" /\ i > Len(message.tool_calls)) =>
            (pc' = "loop" /\ iterations' = iterations + 1
             /\ UNCHANGED <<outcome, current_messages>>)]_vars

\* C6 witness: the first call of a batch of two named an inactive or a
\* missing row; its not-found message, the message of the second call and
\* the history of a further model call are there
C6_Witness ==
    /\ Len(requests) >= 2
    /\ \E k \in 1..(Len(requests[Len(requests)].messages) - 1) :
          /\ requests[Len(requests)].messages[k].role = "tool"
          /\ origin[k].idx = 1
          /\ Absent(origin[k].call.name)
          /\ requests[Len(requests)].messages[k] =
                ToolMessage(NotFoundResult(origin[k].call.name))
          /\ requests[Len(requests)].messages[k + 1].role = "tool"
          /\ origin[k + 1].idx = 2

\* no conversation is inside execute_tool
Quiescent == \A c \in Conversations : ex[c].pc = "idle"

\* the ToolExecution rows of a call / of a tool
RecordsOfCall(n) == {k \in 1..Len(executions) : executions[k].call = n}

RecordsOf(t) == {k \in 1..Len(executions) : executions[k].tool = t}

\* the finished executions of a tool
FinishedOf(t) == {n \in 1..Len(finished) : finished[n].tool = t}

\* C7: every finished call of ToolExecutor.execute has left exactly one
\* ToolExecution row, whichever of its steps failed.
C7_OneRecordPerCall ==
    \A n \in 1..Len(finished) :
        Cardinality(RecordsOfCall(finished[n].call)) = 1

\* C8: whenever no execution is under way, the stored counters of every tool
\* equal the counts of its ToolExecution rows: all rows, the rows with status
\* success, the rows with another status.
C8_StatsMatchAudit ==
    Quiescent =>
        \A t \in ToolRows :
            /\ tooldefs[t].execution_count = Cardinality(RecordsOf(t))
            /\ tooldefs[t].success_count =
                 Cardinality({k \in RecordsOf(t) :
                                 executions[k].status = "success"})
            /\ tooldefs[t].error_count =
                 Cardinality({k \in RecordsOf(t) :
                                 executions[k].status # "success"})

\* every finished execution returned a result to its caller
AllReturned == \A n \in 1..Len(finished) : finished[n].how = "returned"

\* C9: no update of the statistics is lost: when every storage write went
\* through, every execution returned and none is under way, also after two
\* executions of the same tool that overlapped, execution_count and
\* success_count + error_count have grown by the number of finished
\* executions of the tool.
C9_NoLostUpdate ==
    (Quiescent /\ faults = 0 /\ AllReturned) =>
        \A t \in ToolRows :
            /\ tooldefs[t].execution_count = Cardinality(FinishedOf(t))
            /\ tooldefs[t].success_count + tooldefs[t].error_count
                 = Cardinality(FinishedOf(t))

\* C10: after N executions of a tool, none of which overlapped another, S of
\* them with a backend that returned and F = N - S with a backend that
\* raised, the stored counters are N, S and F.
C10_SequentialCounts ==
    (Quiescent /\ ~overlapped) =>
        \A t \in ToolRows :
            /\ tooldefs[t].execution_count = Cardinality(FinishedOf(t))
            /\ tooldefs[t].success_count =
                 Cardinality({n \in FinishedOf(t) : finished[n].outcome = "ok"})
            /\ tooldefs[t].error_count =
                 Cardinality({n \in FinishedOf(t) : finished[n].outcome # "ok"})

\* the sum of the durations written to the ToolExecution rows of tool t among
\* the first n rows
RECURSIVE DurationSum(_, _)
DurationSum(t, n) ==
    IF n = 0 THEN 0
    ELSE DurationSum(t, n - 1)
         + (IF executions[n].tool = t THEN executions[n].execution_time_ms
            ELSE 0)

\* C11: after N executions of a tool, none of which overlapped another, the
\* stored avg_execution_time_ms is the arithmetic mean of the N durations
\* written to the ToolExecution rows of the tool: avg * N = sum of durations.
C11_RunningMeanIsMean ==
    (Quiescent /\ ~overlapped) =>
        \A t \in ToolRows :
            FinishedOf(t) # {} =>
                tooldefs[t].avg_execution_time_ms.num * Cardinality(FinishedOf(t))
                  = DurationSum(t, Len(executions))
                      * tooldefs[t].avg_execution_time_ms.den

\* C12: the stored execution_count, success_count and error_count of a tool
\* never decrease from one state to the next, whatever the interleaving of
\* the conversations that execute it.
C12_StatsMonotonic ==
    [][\A t \in ToolRows :
          /\ tooldefs'[t].execution_count >= tooldefs[t].execution_count
          /\ tooldefs'[t].success_count >= tooldefs[t].success_count
          /\ tooldefs'[t].error_count >= tooldefs[t].error_count]_vars

\* the words of a text
WordsOf(text) == {text[k] : k \in 1..Len(text)}

\* C13: the record of an execution of a script tool that ran into its
\* script_timeout has status "timeout", and the tool-role message of its result
\* contains the word "timeout".
C13_TimeoutRecorded ==
    /\ \A n \in 1..Len(finished) :
          (finished[n].outcome = "timeout"
             /\ ToolConfig(finished[n].tool).execution_type = "script") =>
              \A k \in RecordsOfCall(finished[n].call) :
                  executions[k].status = "timeout"
    /\ (pc = "in_tool" /\ ex["c1"].pc = "returned"
          /\ ex["c1"].outcome = "timeout") =>
              "timeout" \in WordsOf(ToolMessage(ex["c1"].result).content)

\* the batch the model answered the j-th call with: the tool calls of the
\* assistant message that follows the history of that call in the next one
BatchOf(j) ==
    requests[j + 1].messages[Len(requests[j].messages) + 1].tool_calls

\* a retriever call with an intent_category
CategoryCall == [name |-> TOOL_RETRIEVER, args |-> "category"]

\* C14: when a batch contains a successful tool_retriever call whose
\* intent_category resolves to k active tools, the catalog of the next model
\* call is the catalog of the previous one followed by exactly those k
\* schemas, and in incremental mode the handling of that call yields a
\* tools_discovered event that lists k tools.
C14_CatalogGrowth ==
    /\ [](\A j \in 1..(Len(requests) - 1) :
            (\E n \in 1..Len(BatchOf(j)) : BatchOf(j)[n] = CategoryCall) =>
                requests[j + 1].tools
                  = requests[j].tools \o Matching("category"))
    /\ [][(/\ req.mode = "chat_stream"
           /\ pc = "in_tool"
           /\ ex["c1"].pc = "returned"
           /\ ex["c1"].name = TOOL_RETRIEVER
           /\ ex["c1"].args = "category"
           /\ ex["c1"].result.success) =>
              /\ Len(emitted') = Len(emitted) + 2
              /\ emitted'[Len(emitted) + 1].type = "tools_discovered"
              /\ Len(emitted'[Len(emitted) + 1].tools)
                   = Len(Matching("category"))]_vars

\* C15: in every model call of an exchange no tool name occurs twice in the
\* catalog.
C15_CatalogIsSet ==
    \A j \in 1..Len(requests) :
        requests[j].tools # None =>
            \A a, b \in 1..Len(requests[j].tools) :
                requests[j].tools[a] = requests[j].tools[b] => a = b

\* a call of the registry starts in this step
CallStarts == ex["c1"].pc # "called" /\ ex'["c1"].pc = "called"

\* C16: the tool calls of a batch are executed one after the other in the
\* order of the tool-call list: a call starts only when no execution is
\* under way and the tool-role messages of all calls before it stand behind
\* the assistant message; the tool-role messages of a batch are in the order
\* of their calls, and no two executions of the exchange overlap.
C16_SequentialBatch ==
    /\ [][CallStarts =>
            /\ pc = "tool_loop"
            /\ \A c \in Conversations : ex[c].pc = "idle"
            /\ Len(current_messages) >= i
            /\ current_messages[Len(current_messages) - (i - 1)] = message
            /\ ToolTail(current_messages, Len(current_messages) - (i - 1) + 1)
            /\ \A n \in 1..(i - 1) :
                  /\ origin[Len(current_messages) - (i - 1) + n].idx = n
                  /\ origin[Len(current_messages) - (i - 1) + n].call
                       = message.tool_calls[n]
            /\ ex'["c1"].name = message.tool_calls[i].name
            /\ ex'["c1"].args = message.tool_calls[i].args]_vars
    /\ [](\A k \in 1..(Len(current_messages) - 1) :
            (current_messages[k].role = "tool"
               /\ current_messages[k + 1].role = "tool") =>
                origin[k + 1].idx = origin[k].idx + 1)
    /\ [](~overlapped /\ ex["c2"].pc = "idle")

\* C16 witness: the second call of a batch has started, the tool-role message
\* of the first one is the last message of the history
C16_Witness ==
    /\ pc = "in_tool"
    /\ i = 2
    /\ ex["c1"].pc = "called"
    /\ current_messages[Len(current_messages)].role = "tool"
    /\ origin[Len(current_messages)].idx = 1
    /\ current_messages[Len(current_messages) - 1] = message

\* the tool-role messages of a list
ToolMessages(msgs) == {k \in 1..Len(msgs) : msgs[k].role = "tool"}

\* C17: for a batch of k tool calls the registry is invoked exactly k times,
\* once for every entry of the tool-call list, equal entries included, and
\* before the next model call exactly k tool-role messages stand behind the
\* assistant message, the n-th being the JSON-encoded result of the n-th call.
C17_OneMessagePerCall ==
    /\ [](\A j \in 1..(Len(requests) - 1) :
            LET base == Len(requests[j].messages) + 1
                k == Len(BatchOf(j))
            IN  /\ Len(requests[j + 1].messages) = base + k
                /\ \A n \in 1..k :
                      /\ requests[j + 1].messages[base + n].role = "tool"
                      /\ origin[base + n] = [idx |-> n, call |-> BatchOf(j)[n]])
    /\ [](pc = "loop" =>
            invoked = Cardinality(ToolMessages(current_messages)))
    /\ [][(pc = "in_tool" /\ pc' = "tool_loop") =>
            /\ ex["c1"].pc = "returned"
            /\ ex["c1"].name = message.tool_calls[i].name
            /\ ex["c1"].args = message.tool_calls[i].args
            /\ current_messages'
                 = Append(current_messages,
                          Msg("tool", json_dumps(ex["c1"].result), <<>>))]_vars

\* C17 witness: the model was called again after a batch of two calls of the
\* same tool, and both calls have left their message
C17_Witness ==
    \E j \in 1..(Len(requests) - 1) :
        /\ Len(BatchOf(j)) = 2
        /\ BatchOf(j)[1] = BatchOf(j)[2]
        /\ invoked = 2
        /\ Len(requests[j + 1].messages) = Len(requests[j].messages) + 3

\* the conversation is inside ToolExecutor.execute
Executing(c) ==
    ex[c].pc \in {"dispatch", "log_success", "stats_success", "log_error",
                  "stats_error"}

\* the table holds a row of that name whose is_active column is true
ActiveRow(name) ==
    \E t \in ToolRows : t = name /\ ToolConfig(t).is_active

\* C18: execute_tool never dispatches a tool that is absent or inactive: the
\* call returns the not-found failure result in one step that leaves the
\* audit trail, the statistics and the count of executor calls alone; no
\* execution, no ToolExecution row and no statistics ever belong to such a
\* name.
C18_InactiveNeverDispatched ==
    /\ [][\A c \in Conversations :
            (/\ ex[c].pc = "called"
             /\ ex[c].name # TOOL_RETRIEVER
             /\ ~ActiveRow(ex[c].name)
             /\ ex'[c] # ex[c]) =>
                /\ ex'[c].pc = "returned"
                /\ ex'[c].result = NotFoundResult(ex[c].name)
                /\ ~ex'[c].result.success
                /\ UNCHANGED <<tooldefs, executions, calls, finished>>]_vars
    /\ [](\A c \in Conversations : Executing(c) => ActiveRow(ex[c].name))
    /\ [](\A k \in 1..Len(executions) : ActiveRow(executions[k].tool))
    /\ [](\A t \in ToolRows : ~ActiveRow(t) => tooldefs[t] = NewStats)

\* C18 witness: a call of the inactive tool has returned the not-found result
\* while another tool has been executed and recorded
C18_Witness ==
    /\ \E c \in Conversations :
          /\ ex[c].pc = "returned"
          /\ ex[c].name = "old_tool"
          /\ ex[c].result = NotFoundResult("old_tool")
    /\ Len(executions) = 1
    /\ tooldefs["old_tool"] = NewStats

\* C19: execute_tool never dispatches a tool with requires_auth = true for a
\* principal that is not authenticated, be it an anonymous principal or no
\* principal at all: the call returns the Unauthorized failure result and
\* the executor is not reached.
C19_AuthRequired ==
    /\ [][\A c \in Conversations :
            (/\ ex[c].pc = "called"
             /\ ActiveRow(ex[c].name)
             /\ ToolConfig(ex[c].name).requires_auth
             /\ ex[c].user # "authenticated"
             /\ ex'[c] # ex[c]) =>
                /\ ex'[c].pc = "returned"
                /\ ~ex'[c].result.success
                /\ ex'[c].result.error = <<"Authentication", "required">>
                /\ UNCHANGED <<tooldefs, executions, calls, finished>>]_vars
    /\ [](\A c \in Conversations :
            (Executing(c) /\ ToolConfig(ex[c].name).requires_auth) =>
                ex[c].user = "authenticated")

\* C20: when the call of the inference endpoint fails in incremental mode,
\* no word of the text of the error is part of anything the caller receives:
\* neither of a fragment the generator yields nor of the message the handler
\* sends and saves in its place.
C20_ErrorTextHidden ==
    (/\ req.mode = "chat_stream"
     /\ outcome.kind \in {"raising", "raised"}
     /\ outcome.value = EndpointError) =>
        /\ \A n \in 1..Len(emitted) :
              WordsOf(emitted[n].content) \cap WordsOf(EndpointError) = {}
        /\ pc = "done" =>
              WordsOf(stored[Len(stored)].content) \cap WordsOf(EndpointError)
                = {}

\* the pruner has been applied once to the input, and has returned
Pruned == pure.fn = "pruning_processor" /\ pure.pc = "once"

\* C21: whenever the pruner, applied to a history h with token counts t and
\* m, returns, it returns h itself when t <= 0.5 * m, and the tail slice of h of
\* length max(2, round(0.2 * len(h))) when t > 0.5 * m, for every length of h
C21_PrunerKeepsRoundedTail ==
    Pruned
    => LET \* round(0.2 * len(h)): a fifth of an integer is never half-way
           \* between two integers, so rounding is floor(len(h) / 5 + 1 / 2)
           rounded == (2 * Len(pure.messages) + 5) \div 10
       IN  pure.once =
             IF 2 * pure.current_tokens <= pure.max_tokens
             THEN pure.messages
             ELSE TailSlice(pure.messages, IF rounded > 2 THEN rounded ELSE 2)

\* C22: pruning the result of the pruner again under the same token counts
\* gives the result of the first pruning
C22_PruningIdempotent ==
    (pure.fn = "pruning_processor" /\ pure.pc = "twice") => pure.twice = pure.once

\* C23: the message list of every call of the model is the pruner's result on
\* the history the orchestrator holds; chat and chat_stream take no token
\* usage (ollama_client.py:60-61, 166-167), so this is stated for every usage
\* a caller can hold
C23_PrunedBeforeEachModelCall ==
    [][Len(requests') > Len(requests)
       => \A t \in Tokens : \A m \in Tokens \ {0} :
            requests'[Len(requests')].messages
              = pruning_processor(current_messages, t, m)]_vars

\* format_chat_messages has been applied to the input and to its result
Formatted == pure.fn = "format_chat_messages" /\ pure.pc = "twice"

\* msgs is the system message of the prompt followed by the list rest
Prepended(msgs, rest) == msgs = <<Plain("system", SystemPrompt)>> \o rest

\* C24: format_chat_messages prepends the system message exactly when the
\* list is empty or its first entry is not a system message, and otherwise
\* returns the list unchanged; the result starts with a system message, holds
\* the input messages in their order at its end, and formatting it again
\* changes nothing
C24_FormatChatMessages ==
    Formatted
    => /\ (pure.messages = <<>> \/ pure.messages[1].role # "system")
            => Prepended(pure.once, pure.messages)
       /\ (pure.messages # <<>> /\ pure.messages[1].role = "system")
            => pure.once = pure.messages
       /\ pure.once # <<>> /\ pure.once[1].role = "system"
       /\ Len(pure.once) >= Len(pure.messages)
       /\ SubSeq(pure.once, Len(pure.once) - Len(pure.messages) + 1, Len(pure.once))
            = pure.messages
       /\ pure.twice = pure.once

\* both cases of C24 happen: a list with a later system message got the
\* prompt in front, and one that starts with a system message came back as is
C24_Witness ==
    /\ Formatted
    /\ Len(pure.messages) = MaxMessages
    /\ pure.messages[1].role # "system"
    /\ pure.messages[2].role = "system"
    /\ Len(pure.once) = MaxMessages + 1

\* C25: from the call of chat / chat_stream on, the list the handler passed
\* holds the messages it held at the call: no step of the orchestrator
\* changes it, the assistant and tool messages go to the orchestrator's list
C25_HistoryByValue ==
    [][(pc \in {"call_chat", "loop", "tool_loop", "in_tool", "streaming", "except"})
       => (messages' = messages)]_vars

\* the text of the content fragments at the end of events, after the last
\* event of a tool
RECURSIVE TrailingContent(_)
TrailingContent(events) ==
    IF events = <<>> \/ events[Len(events)].type # "content" THEN <<>>
    ELSE TrailingContent(SubSeq(events, 1, Len(events) - 1))
         \o events[Len(events)].content

\* events up to, and without, the n-th last tool_call event
RECURSIVE BeforeCalls(_, _)
BeforeCalls(events, n) ==
    IF n = 0 \/ events = <<>> THEN events
    ELSE BeforeCalls(SubSeq(events, 1, Len(events) - 1),
                     IF events[Len(events)].type = "tool_call" THEN n - 1 ELSE n)

\* the tool calls of the current batch whose tool_call event has been yielded
CallsYielded == IF pc = "in_tool" THEN i ELSE i - 1

\* the synthetic assistant message of the current batch in the
\* orchestrator's list: it is followed by one tool message per finished call
Synthetic == current_messages[Len(current_messages) - (i - 1)]

\* C26: in chat_stream, between two chunks the fragments yielded since the
\* model call was opened are the content received so far, with no tool event
\* among or before them; while the batch of that call runs, the fragments
\* yielded just before its first tool event, joined in order, are the content
\* of the synthetic assistant message appended for the call
C26_FragmentsYieldedAsReceived ==
    req.mode = "chat_stream"
    => /\ pc = "streaming" => TrailingContent(emitted) = message.content
       /\ pc \in {"tool_loop", "in_tool"}
            => /\ Synthetic.role = "assistant"
               /\ Synthetic.tool_calls = message.tool_calls
               /\ Synthetic.content
                    = TrailingContent(BeforeCalls(emitted, CallsYielded))

\* a model call whose content came in two fragments and whose first tool
\* call has been answered
C26_Witness ==
    /\ req.mode = "chat_stream"
    /\ pc = "tool_loop"
    /\ i > 1
    /\ Len(Synthetic.content) = 2
    /\ Len(SelectSeq(emitted, LAMBDA e : e.type = "content")) = 2
    /\ \E k \in 1..Len(emitted) : emitted[k].type = "tool_result"

\* ToolExecutor.execute has ended in conversation c for a stored user whose
\* backend raised (a failure of the script, the function or the webhook)
BackendFailed(c) ==
    /\ ex[c].pc \in {"returned", "raised"}
    /\ ex[c].outcome \in {"error", "timeout"}
    /\ IsUser(ex[c].user)

\* C27: an execution whose backend failed does not raise: it returns a result
\* with success = false and has left a record whose status is not success
C27_BackendFailureReturned ==
    \A c \in Conversations :
        BackendFailed(c)
        => /\ ex[c].pc = "returned"
           /\ ~ex[c].result.success
           /\ \E k \in RecordsOfCall(ex[c].call) : executions[k].status # "success"

\* a lookup has been applied to its input
LookedUp == pure.fn \in Lookups /\ pure.pc = "once"

\* the names a lookup has returned, in their order
ReturnedTools == IF pure.fn = "tool_retriever" THEN pure.once.tools ELSE pure.once

\* the lookup was given a category / a query that counts: the retriever uses
\* the category when both are given
UsesCategory ==
    \/ pure.fn = "get_tools_by_category"
    \/ pure.fn = "tool_retriever" /\ pure.intent_category \notin {None, <<>>}

UsesQuery ==
    \/ pure.fn = "search_tools"
    \/ /\ pure.fn = "tool_retriever"
       /\ ~UsesCategory
       /\ pure.query \notin {None, <<>>}

\* text holds the letters of q from position k on, whatever their case
MatchesAt(text, q, k) ==
    /\ k + Len(q) - 1 <= Len(text)
    /\ \A j \in 1..Len(q) : Lower(text[k + j - 1]) = Lower(q[j])

C29_BootstrapCatalog ==
    /\ req.use_tools
         => /\ requests # <<>> => requests[1].tools = <<TOOL_RETRIEVER>>
            /\ \A j \in 1..Len(requests) :
                 /\ requests[j].tools # None
                 /\ \E k \in 1..Len(requests[j].tools) :
                      requests[j].tools[k] = TOOL_RETRIEVER
    /\ ~req.use_tools => \A j \in 1..Len(requests) : requests[j].tools = None

\* a later model call whose catalog has grown by discovered tools
C29_Witness ==
    /\ req.use_tools
    /\ Len(requests) >= 2
    /\ requests[1].tools = <<TOOL_RETRIEVER>>
    /\ Len(requests[2].tools) > 1

\* C30: no step updates or deletes a ToolExecution row: every row of the
\* table is in the table after the step, at its place and with its fields
C30_AuditAppendOnly ==
    [][/\ Len(executions') >= Len(executions)
       /\ \A k \in 1..Len(executions) : executions'[k] = executions[k]]_vars

\* a second execution has written its row after the row of a first one
C30_Witness ==
    /\ Len(executions) = 2
    /\ executions[1].call # executions[2].call
    /\ executions[1].status = "success"
    /\ executions[2].status = "error"

\* the exchange has failed: an exception is on its way to the handler of
\* chat_stream, or has left it
Failed == outcome.kind \in {"raising", "raised"}

\* the tool_call events yielded so far, in order
CallEvents == SelectSeq(emitted, LAMBDA e : e.type = "tool_call")

\* C31: in chat_stream the events of a tool call come as tool_call, then
\* tools_discovered only for a successful tool_retriever call, then
\* tool_result with the name of the tool_call; nothing stands between them,
\* so the events of a call precede those of the next call; a tool_call
\* without its tool_result is the call under way or the one the exchange
\* failed in; the tool_call events of a batch follow the tool-call list; and
\* a tool-role message is in the history only with its tool_result yielded
C31_EventOrder ==
    req.mode = "chat_stream"
    => /\ \A k \in 1..Len(emitted) :
            /\ emitted[k].type = "tool_call"
                 => IF k = Len(emitted) THEN pc = "in_tool" \/ Failed
                    ELSE \/ emitted[k + 1].type = "tools_discovered"
                         \/ /\ emitted[k + 1].type = "tool_result"
                            /\ emitted[k + 1].name = emitted[k].name
                         \/ /\ emitted[k + 1].type = "content"
                            /\ k + 1 = Len(emitted)
                            /\ Failed
            /\ emitted[k].type = "tools_discovered"
                 => /\ k > 1 /\ k < Len(emitted)
                    /\ emitted[k - 1].type = "tool_call"
                    /\ emitted[k - 1].name = TOOL_RETRIEVER
                    /\ emitted[k + 1].type = "tool_result"
                    /\ emitted[k + 1].name = TOOL_RETRIEVER
                    /\ emitted[k + 1].result.success
            /\ emitted[k].type = "tool_result"
                 => /\ k > 1
                    /\ \/ /\ emitted[k - 1].type = "tool_call"
                          /\ emitted[k - 1].name = emitted[k].name
                       \/ emitted[k - 1].type = "tools_discovered"
       /\ pc \in {"tool_loop", "in_tool"}
            => /\ Len(CallEvents) >= CallsYielded
               /\ \A n \in 1..CallsYielded :
                    CallEvents[Len(CallEvents) - CallsYielded + n].name
                      = message.tool_calls[n].name
       /\ Cardinality({k \in 1..Len(current_messages) :
                          current_messages[k].role = "tool"})
            = Len(SelectSeq(emitted, LAMBDA e : e.type = "tool_result"))

\* the two calls of a batch have been answered, the first of them a
\* successful retriever call
C31_Witness ==
    /\ req.mode = "chat_stream"
    /\ pc = "tool_loop"
    /\ i = 3
    /\ \E k \in 1..Len(emitted) :
         /\ k + 4 <= Len(emitted)
         /\ emitted[k].type = "tool_call"
         /\ emitted[k + 1].type = "tools_discovered"
         /\ emitted[k + 2].type = "tool_result"
         /\ emitted[k + 3].type = "tool_call"
         /\ emitted[k + 3].name # TOOL_RETRIEVER
         /\ emitted[k + 4].type = "tool_result"

\* C32: when the orchestrator takes the result of a successful tool_retriever
\* call, the schemas it appends to the catalog are the tools listed in that
\* result, in number and in name, and in chat_stream the tools_discovered
\* event lists the same tools
C32_InjectedAreListed ==
    [][(pc = "in_tool" /\ ex["c1"].pc = "returned" /\ Injects(ex["c1"]))
       => /\ tools' = tools \o ex["c1"].result.tools
          /\ req.mode = "chat_stream"
               => /\ Len(emitted') > Len(emitted)
                  /\ emitted'[Len(emitted) + 1].type = "tools_discovered"
                  /\ emitted'[Len(emitted) + 1].tools = ex["c1"].result.tools]_vars

\* every tool-role message of msgs belongs to the batch of the nearest
\* assistant message before it
ValidHistory(msgs) ==
    \A k \in 1..Len(msgs) :
        msgs[k].role = "tool" =>
            LET a == Requester(msgs, k) IN
            /\ a >= 1
            /\ msgs[a].role = "assistant"
            /\ k - a <= Len(msgs[a].tool_calls)

\* C33: the pruner's result for a valid history is a valid history: it does
\* not start with a tool-role message whose assistant message was dropped
C33_PrunedHistoryValid ==
    (Pruned /\ ValidHistory(pure.messages))
    => /\ ValidHistory(pure.once)
       /\ pure.once # <<>> => pure.once[1].role # "tool"

\* execute_tool is at its start in conversation c with the bootstrap tool
RetrieverCalled(c) == ex[c].pc = "called" /\ ex[c].name = TOOL_RETRIEVER

\* C34: execute_tool with the name tool_retriever ends in one step, with the
\* retriever's dictionary or an exception of the call, whether the retrieval
\* succeeds or fails; the step writes no ToolExecution row, changes no column
\* of a ToolDefinition and does not reach the executor, and no row of the
\* audit trail names the bootstrap tool
C34_RetrieverLeavesNoTrace ==
    /\ [][\A c \in Conversations :
            (RetrieverCalled(c) /\ ex'[c] # ex[c])
            => /\ tooldefs' = tooldefs
               /\ executions' = executions
               /\ calls' = calls
               /\ finished' = finished
               /\ \/ ex'[c].pc = "raised"
                  \/ /\ ex'[c].pc = "returned"
                     /\ \/ /\ ex'[c].result.success
                           /\ ex'[c].result.tools = Matching(ex[c].args)
                        \/ /\ ~ex'[c].result.success
                           /\ ex'[c].result.tools = <<>>
                           /\ ex'[c].result.error = StorageError]_vars
    /\ [](\A k \in 1..Len(executions) : executions[k].tool # TOOL_RETRIEVER)

\* a retrieval has failed after an execution has left its row and its counts
C34_Witness ==
    /\ Len(executions) = 1
    /\ \E c \in Conversations :
         /\ ex[c].name = TOOL_RETRIEVER
         /\ ex[c].pc = "returned"
         /\ ~ex[c].result.success
    /\ \E t \in ToolRows : tooldefs[t].execution_count = 1

\* the catalog sent with the latest call of the model
OfferedCatalog == requests[Len(requests)].tools

\* C35: whenever the executor runs a tool for the orchestrator, the name of
\* the tool is in the catalog that was sent with the model call whose
\* response requested it
C35_ExecutedWasOffered ==
    (requests # <<>> /\ Executing("c1"))
    => \E k \in 1..Len(OfferedCatalog) : OfferedCatalog[k] = ex["c1"].name

\* C36: a finished execution has left a row with status success, and no
\* other row, exactly when its backend returned a JSON value, whatever the
\* value says; and while nothing is under way the stored success_count of a
\* tool is the number of its executions whose backend returned
C36_SuccessIffBackendReturned ==
    /\ \A n \in 1..Len(finished) :
          finished[n].outcome = "ok"
          <=> /\ RecordsOfCall(finished[n].call) # {}
              /\ \A k \in RecordsOfCall(finished[n].call) :
                    executions[k].status = "success"
    /\ Quiescent =>
          \A t \in ToolRows :
              tooldefs[t].success_count
                = Cardinality({n \in FinishedOf(t) : finished[n].outcome = "ok"})

\* C37: whenever the executor runs a tool whose allowed_roles list is not
\* empty, the principal of the call holds one of the listed roles
C37_RolesChecked ==
    \A c \in Conversations :
        (Executing(c) /\ ToolConfig(ex[c].name).allowed_roles # <<>>)
        => \E k \in 1..Len(ToolConfig(ex[c].name).allowed_roles) :
              ToolConfig(ex[c].name).allowed_roles[k] \in HeldRoles(ex[c].user)

\* C38: in every state every stored ToolDefinition has
\* execution_count = success_count + error_count, and so has the in-memory
\* copy of every execution under way, also when overlapping executions of a
\* tool have lost updates
C38_CountersAddUp ==
    /\ \A t \in ToolRows :
          tooldefs[t].execution_count
            = tooldefs[t].success_count + tooldefs[t].error_count
    /\ \A c \in Conversations :
          ex[c].tool.execution_count
            = ex[c].tool.success_count + ex[c].tool.error_count

\* two overlapping executions of a tool are through, one with a success and
\* one with an error, and the row has lost one of the two updates
C38_Witness ==
    /\ Quiescent
    /\ overlapped
    /\ \E t \in ToolRows :
         /\ Cardinality(FinishedOf(t)) = 2
         /\ \E n \in FinishedOf(t) : finished[n].outcome = "ok"
         /\ \E n \in FinishedOf(t) : finished[n].outcome # "ok"
         /\ tooldefs[t].execution_count = 1
====
